---- MODULE Spec2Model ----
(***************************************************************************)
(* Biomass cycle-detection pipeline of "5 TimeSeries_NDVI.py" (main).      *)
(*                                                                         *)
(* Numbers.  Media_NDVI values are modelled as integers in hundredths      *)
(* (80 stands for 0.80, 1000 for 10.00); the arithmetic of the script is   *)
(* carried out exactly (rationals as numerator/denominator), with the two  *)
(* special floating point results the script can produce, NaN and inf,     *)
(* kept as separate values.  Rounding of binary floating point is not      *)
(* modelled.                                                               *)
(***************************************************************************)
EXTENDS Integers, Sequences, FiniteSets, TLC

VARIABLES
    pc,                    \* position of main()
    arquivos,              \* the .tif files of diretorio_entrada, in os.listdir order
    mensagens,             \* messagebox dialogs shown so far
    dados,                 \* list of (data, media_ndvi)
    df,                    \* DataFrame sorted by Data
    csv_completo,          \* serie_temporal_completa.csv
    df_filtrado,           \* rows of df that passed the deviation test
    NDVI_Suavizado,        \* column NDVI_Suavizado of df_filtrado
    csv_filtrado,          \* serie_temporal_filtrada.csv
    picos, vales,          \* positions returned by find_peaks
    tendencias_filtradas,  \* list of (rotulo, posicao)
    sequencia,             \* "crescimento" | "pico"
    i, j,                  \* cursors into picos and vales
    grafico                \* grafico_biomassa.png: the vertical lines drawn

vars == <<pc, arquivos, mensagens, dados, df, csv_completo, df_filtrado,
          NDVI_Suavizado, csv_filtrado, picos, vales, tendencias_filtradas,
          sequencia, i, j, grafico>>

---------------------------------------------------------------------------
(* Bounds of the model *)

MaxArquivos == 3     \* longest exhaustively enumerated directory listing
MaxData == 2         \* dates of the enumerated files are 1..MaxData
MaxIndice == 5       \* extremum positions of the enumerated sequencer inputs are 0..MaxIndice
MaxExtremos == 3     \* longest enumerated picos / vales

(* Values of the enumerated files, in hundredths: -10.00, 0, 10.00, 25.00 *)
Valores == {-1000, 0, 1000, 2500}

---------------------------------------------------------------------------
(* Generic helpers *)

Abs(x) == IF x < 0 THEN -x ELSE x

Max(a, b) == IF a >= b THEN a ELSE b

SeqsUpTo(S, n) == UNION {[1..k -> S] : k \in 0..n}

Range(s) == {s[k] : k \in DOMAIN s}

---------------------------------------------------------------------------
(* Floating point values: NaN, +inf, or an exact rational num/den, den > 0 *)

NaN == [tipo |-> "nan", num |-> 0, den |-> 1]

Inf == [tipo |-> "inf", num |-> 1, den |-> 1]

Num(n) == [tipo |-> "num", num |-> n, den |-> 1]

\* a / b on floats as numpy divides: x/0 is inf for x > 0, 0/0 is NaN
Dividir(a, b) ==
    IF a.tipo = "nan" \/ b.tipo = "nan" THEN NaN
    ELSE IF b.num = 0 THEN (IF a.num = 0 THEN NaN ELSE Inf)
    ELSE IF b.num > 0 THEN [tipo |-> "num", num |-> a.num * b.den, den |-> a.den * b.num]
    ELSE [tipo |-> "num", num |-> -(a.num * b.den), den |-> a.den * (-b.num)]

\* a * k for an integer k > 0
Vezes(a, k) == IF a.tipo = "num" THEN [a EXCEPT !.num = a.num * k] ELSE a

\* a <= k for an integer k; every comparison with NaN is False, inf <= k is False
MenorOuIgual(a, k) == a.tipo = "num" /\ a.num <= k * a.den

---------------------------------------------------------------------------
(* Inputs *)

Invalido == [valido |-> FALSE, Data |-> 0, Media_NDVI |-> 0]

Arquivo(d, v) == [valido |-> TRUE, Data |-> d, Media_NDVI |-> v]

\* a directory whose k-th file carries date k and value vs[k] (hundredths)
Serie(vs) == [k \in 1..Len(vs) |-> Arquivo(k, vs[k])]

SerieAlternada ==
    Serie(<<60, 70, 60, 50, 50, 50, 20, 70, 40, 40, 60, 20, 20, 30, 50, 30, 70, 40,
            70, 60, 80, 30, 10, 20>>)

SerieForaDeOrdem ==
    Serie(<<90, 90, 10, 10, 10, 10, 10, 10, 10, 10, 10, 40, 80, 10, 10, 10, 10, 10,
            10, 10, 10, 10, 10, 10, 10, 10, 10, 35, 70>>)

SeriePicoPulado ==
    Serie(<<90, 90, 90, 70, 30, 30, 30, 30, 30, 30, 30, 30, 50, 50, 50, 50, 50, 50,
            50, 50, 80>>)

SeriesLongas == {SerieAlternada, SerieForaDeOrdem, SeriePicoPulado}

ArquivosPossiveis ==
    {Invalido} \cup {Arquivo(d, v) : d \in 1..MaxData, v \in Valores}

Entradas == SeqsUpTo(ArquivosPossiveis, MaxArquivos) \cup SeriesLongas

---------------------------------------------------------------------------
(* Initial state: main() entered, the directories chosen *)

Init ==
    /\ pc = "listar"
    /\ arquivos \in Entradas
    /\ mensagens = <<>>
    /\ dados = <<>>
    /\ df = <<>>
    /\ csv_completo = <<>>
    /\ df_filtrado = <<>>
    /\ NDVI_Suavizado = <<>>
    /\ csv_filtrado = <<>>
    /\ picos = <<>>
    /\ vales = <<>>
    /\ tendencias_filtradas = <<>>
    /\ sequencia = "indefinida"
    /\ i = 0
    /\ j = 0
    /\ grafico = <<>>

---------------------------------------------------------------------------
(* Lines 34-38: list the .tif files; none found is an error dialog and return *)

ListarArquivos ==
    /\ pc = "listar"
    /\ IF arquivos = <<>>
          THEN /\ mensagens' = Append(mensagens, "erro_nenhum_tiff")
               /\ pc' = "fim"
          ELSE /\ mensagens' = mensagens
               /\ pc' = "ler"
    /\ UNCHANGED <<arquivos, dados, df, csv_completo, df_filtrado, NDVI_Suavizado,
                   csv_filtrado, picos, vales, tendencias_filtradas, sequencia, i, j,
                   grafico>>

(* Lines 40-58: one (data, media_ndvi) per file with a valid name, a warning
   per file with an invalid one *)

RECURSIVE LerDados(_)
LerDados(arqs) ==
    IF arqs = <<>> THEN <<>>
    ELSE IF Head(arqs).valido
         THEN <<[Data |-> Head(arqs).Data, Media_NDVI |-> Head(arqs).Media_NDVI]>>
              \o LerDados(Tail(arqs))
         ELSE LerDados(Tail(arqs))

RECURSIVE Avisos(_)
Avisos(arqs) ==
    IF arqs = <<>> THEN <<>>
    ELSE IF Head(arqs).valido THEN Avisos(Tail(arqs))
         ELSE <<"aviso_nome_invalido">> \o Avisos(Tail(arqs))

LerArquivos ==
    /\ pc = "ler"
    /\ dados' = LerDados(arquivos)
    /\ mensagens' = mensagens \o Avisos(arquivos)
    /\ pc' = "verificar_dados"
    /\ UNCHANGED <<arquivos, df, csv_completo, df_filtrado, NDVI_Suavizado,
                   csv_filtrado, picos, vales, tendencias_filtradas, sequencia, i, j,
                   grafico>>

(* Lines 60-62: no valid data is an error dialog and return *)

\* the check of line 60 left out
VerificarDadosSemRetorno ==
    /\ pc = "verificar_dados"
    /\ mensagens' = mensagens
    /\ pc' = "ordenar"
    /\ UNCHANGED <<arquivos, dados, df, csv_completo, df_filtrado, NDVI_Suavizado,
                   csv_filtrado, picos, vales, tendencias_filtradas, sequencia, i, j,
                   grafico>>

VerificarDados ==
    /\ pc = "verificar_dados"
    /\ IF dados = <<>>
          THEN /\ mensagens' = Append(mensagens, "erro_nenhum_dado")
               /\ pc' = "fim"
          ELSE /\ mensagens' = mensagens
               /\ pc' = "ordenar"
    /\ UNCHANGED <<arquivos, dados, df, csv_completo, df_filtrado, NDVI_Suavizado,
                   csv_filtrado, picos, vales, tendencias_filtradas, sequencia, i, j,
                   grafico>>

(* Line 65: DataFrame(dados).sort_values('Data').  Each row keeps its index
   label (its position in dados, from 0).  sort_values sorts with the default
   kind 'quicksort', which is not stable: rows of equal Data may come out in
   any order. *)

Linhas(d) == {[idx |-> k - 1, Data |-> d[k].Data, Media_NDVI |-> d[k].Media_NDVI] :
                 k \in DOMAIN d}

RECURSIVE Ordenacoes(_)
Ordenacoes(S) ==
    IF S = {} THEN {<<>>}
    ELSE LET primeiras == {r \in S : \A q \in S : r.Data <= q.Data}
         IN UNION {{<<r>> \o t : t \in Ordenacoes(S \ {r})} : r \in primeiras}

\* the rows left in the order of dados
sem_ordenar(d) ==
    {[k \in DOMAIN d |-> [idx |-> k - 1, Data |-> d[k].Data, Media_NDVI |-> d[k].Media_NDVI]]}

sort_values(d) == Ordenacoes(Linhas(d))

CriarDataFrame ==
    /\ pc = "ordenar"
    /\ df' \in sort_values(dados)
    /\ pc' = "salvar_completo"
    /\ UNCHANGED <<arquivos, mensagens, dados, csv_completo, df_filtrado,
                   NDVI_Suavizado, csv_filtrado, picos, vales, tendencias_filtradas,
                   sequencia, i, j, grafico>>

(* Lines 67-70: the complete table, written without the index *)

SalvarCompleto ==
    /\ pc = "salvar_completo"
    /\ csv_completo' = [k \in DOMAIN df |->
                           [Data |-> df[k].Data, Media_NDVI |-> df[k].Media_NDVI]]
    /\ mensagens' = Append(mensagens, "sucesso_tabela_completa")
    /\ pc' = "filtrar"
    /\ UNCHANGED <<arquivos, dados, df, df_filtrado, NDVI_Suavizado, csv_filtrado,
                   picos, vales, tendencias_filtradas, sequencia, i, j, grafico>>

(* Lines 72-75: the deviation columns and the boolean selection *)

\* the division made by the row's own value instead of the previous one
shift_ausente(t, k) == Num(t[k].Media_NDVI)

\* df['Media_NDVI'].shift(1): the value of the previous row of df, NaN in the first
shift(t, k) == IF k = 1 THEN NaN ELSE Num(t[k - 1].Media_NDVI)

\* df['Media_NDVI'].diff().abs()
Diff_NDVI(t, k) ==
    IF k = 1 THEN NaN ELSE Num(Abs(t[k].Media_NDVI - t[k - 1].Media_NDVI))

\* the deviation taken relative to the size of the previous value
Percent_DesvioEmModulo(t, k) ==
    Vezes(Dividir(Diff_NDVI(t, k),
                  IF k = 1 THEN NaN ELSE Num(Abs(t[k - 1].Media_NDVI))), 100)

Percent_Desvio(t, k) == Vezes(Dividir(Diff_NDVI(t, k), shift(t, k)), 100)

Retido(t, k) == MenorOuIgual(Percent_Desvio(t, k), 100)

RECURSIVE Selecionar(_, _)
Selecionar(t, k) ==
    IF k > Len(t) THEN <<>>
    ELSE IF Retido(t, k) THEN <<t[k]>> \o Selecionar(t, k + 1)
         ELSE Selecionar(t, k + 1)

\* the selected rows with Media_NDVI overwritten by the absolute difference
FiltrarComDiff(t) ==
    LET sel == Selecionar(t, 1)
    IN [m \in DOMAIN sel |->
           LET k == CHOOSE k \in DOMAIN t : t[k] = sel[m]
           IN [sel[m] EXCEPT !.Media_NDVI = Abs(t[k].Media_NDVI - t[k - 1].Media_NDVI)]]

Filtrar(t) == Selecionar(t, 1)

FiltrarDesvios ==
    /\ pc = "filtrar"
    /\ df_filtrado' = Filtrar(df)
    /\ pc' = "verificar_filtrado"
    /\ UNCHANGED <<arquivos, mensagens, dados, df, csv_completo, NDVI_Suavizado,
                   csv_filtrado, picos, vales, tendencias_filtradas, sequencia, i, j,
                   grafico>>

(* Lines 77-80: nothing left after the filter is an error dialog and return *)

\* the return of line 80 left out
VerificarFiltradoSemRetorno ==
    /\ pc = "verificar_filtrado"
    /\ IF df_filtrado = <<>>
          THEN mensagens' = Append(mensagens, "erro_filtragem_vazia")
          ELSE mensagens' = mensagens
    /\ pc' = "suavizar"
    /\ UNCHANGED <<arquivos, dados, df, csv_completo, df_filtrado, NDVI_Suavizado,
                   csv_filtrado, picos, vales, tendencias_filtradas, sequencia, i, j,
                   grafico>>

VerificarFiltrado ==
    /\ pc = "verificar_filtrado"
    /\ IF df_filtrado = <<>>
          THEN /\ mensagens' = Append(mensagens, "erro_filtragem_vazia")
               /\ pc' = "fim"
          ELSE /\ mensagens' = mensagens
               /\ pc' = "suavizar"
    /\ UNCHANGED <<arquivos, dados, df, csv_completo, df_filtrado, NDVI_Suavizado,
                   csv_filtrado, picos, vales, tendencias_filtradas, sequencia, i, j,
                   grafico>>

(* Lines 82-84: rolling(window=9, center=True).mean().  min_periods defaults
   to the window, so a position whose window leaves the series is NaN.  A
   defined value is the exact rational (sum of the window) / window. *)

janela_suavizacao == 9

JanelaCompleta(n, k) ==
    /\ k - (janela_suavizacao - 1) \div 2 >= 1
    /\ k + janela_suavizacao \div 2 <= n

\* the window taken without its last row
RECURSIVE SomaSemUltimo(_, _, _)
SomaSemUltimo(t, a, b) ==
    IF a >= b THEN 0 ELSE t[a].Media_NDVI + SomaSemUltimo(t, a + 1, b)

RECURSIVE Soma(_, _, _)
Soma(t, a, b) == IF a > b THEN 0 ELSE t[a].Media_NDVI + Soma(t, a + 1, b)

\* min_periods = 1: the mean of the part of the window inside the series
MediaMovelParcial(t, k) ==
    LET a == Max(1, k - (janela_suavizacao - 1) \div 2)
        b == IF k + janela_suavizacao \div 2 <= Len(t)
             THEN k + janela_suavizacao \div 2 ELSE Len(t)
    IN [tipo |-> "num", num |-> Soma(t, a, b), den |-> b - a + 1]

MediaMovel(t, k) ==
    IF JanelaCompleta(Len(t), k)
    THEN [tipo |-> "num",
          num |-> Soma(t, k - (janela_suavizacao - 1) \div 2, k + janela_suavizacao \div 2),
          den |-> janela_suavizacao]
    ELSE NaN

rolling_mean(t) == [k \in DOMAIN t |-> MediaMovel(t, k)]

\* the rolling mean taken over df, each retained row keeping the mean of its window in df
SuavizarSobreDf ==
    /\ pc = "suavizar"
    /\ NDVI_Suavizado' =
           [m \in DOMAIN df_filtrado |->
               MediaMovel(df, CHOOSE k \in DOMAIN df : df[k].idx = df_filtrado[m].idx)]
    /\ pc' = "salvar_filtrado"
    /\ UNCHANGED <<arquivos, mensagens, dados, df, csv_completo, df_filtrado,
                   csv_filtrado, picos, vales, tendencias_filtradas, sequencia, i, j,
                   grafico>>

Suavizar ==
    /\ pc = "suavizar"
    /\ NDVI_Suavizado' = rolling_mean(df_filtrado)
    /\ pc' = "salvar_filtrado"
    /\ UNCHANGED <<arquivos, mensagens, dados, df, csv_completo, df_filtrado,
                   csv_filtrado, picos, vales, tendencias_filtradas, sequencia, i, j,
                   grafico>>

(* Lines 86-89: the filtered table, with the smoothed column *)

\* the to_csv of line 88 left for later
SalvarFiltradoAdiado ==
    /\ pc = "salvar_filtrado"
    /\ pc' = "detectar"
    /\ UNCHANGED <<arquivos, mensagens, dados, df, csv_completo, df_filtrado,
                   NDVI_Suavizado, csv_filtrado, picos, vales, tendencias_filtradas,
                   sequencia, i, j, grafico>>

SalvarFiltrado ==
    /\ pc = "salvar_filtrado"
    /\ csv_filtrado' = [k \in DOMAIN df_filtrado |->
                           [Data |-> df_filtrado[k].Data,
                            Media_NDVI |-> df_filtrado[k].Media_NDVI,
                            NDVI_Suavizado |-> NDVI_Suavizado[k]]]
    /\ mensagens' = Append(mensagens, "sucesso_tabela_filtrada")
    /\ pc' = "detectar"
    /\ UNCHANGED <<arquivos, dados, df, csv_completo, df_filtrado, NDVI_Suavizado,
                   picos, vales, tendencias_filtradas, sequencia, i, j, grafico>>

---------------------------------------------------------------------------
(* Lines 91-97: scipy.signal.find_peaks(x, prominence=0.05, width=5) on the
   smoothed column with NaN replaced by 0, and on its negation.  The series
   handed to find_peaks is kept as integers: every value times the window
   (the common denominator of the smoothed values), in hundredths.  Sequences
   are indexed from 1 here; the positions returned count from 0, as numpy's. *)

limite_prominencia == 5     \* 0.05, in hundredths

limite_largura == 5

\* the undefined entries filled with 1.00 whatever the value asked for
fillna_um(col, v) == [k \in DOMAIN col |-> IF col[k].tipo = "nan" THEN Num(100) ELSE col[k]]

fillna(col, v) == [k \in DOMAIN col |-> IF col[k].tipo = "nan" THEN Num(v) ELSE col[k]]

\* the value a, a rational of denominator 1 or janela_suavizacao, times janela_suavizacao
Escalar(a) == (a.num * janela_suavizacao) \div a.den

SerieDeBusca(col) == [k \in DOMAIN col |-> Escalar(fillna(col, 0)[k])]

\* the valleys searched in the series itself, the minus sign of line 97 left out
SemNegar(x) == x

Negar(x) == [k \in DOMAIN x |-> -x[k]]

\* _local_maxima_1d: the end of the plateau that starts at k
RECURSIVE FimPlato(_, _, _)
FimPlato(x, m, h) == IF m < Len(x) /\ x[m] = h THEN FimPlato(x, m + 1, h) ELSE m

\* _local_maxima_1d: the midpoints of the plateaus higher than both neighbours
RECURSIVE MaximosLocais(_, _)
MaximosLocais(x, k) ==
    IF k >= Len(x) THEN <<>>
    ELSE IF x[k - 1] < x[k]
         THEN LET a == FimPlato(x, k + 1, x[k])
              IN IF x[a] < x[k]
                 THEN <<(k + a - 1) \div 2>> \o MaximosLocais(x, a + 1)
                 ELSE MaximosLocais(x, k + 1)
         ELSE MaximosLocais(x, k + 1)

\* _peak_prominences: walk away from the peak p while the signal stays <= x[p],
\* remembering the lowest value met and the sample nearest to p that has it
RECURSIVE Base(_, _, _, _, _, _)
Base(x, p, k, passo, minimo, base) ==
    IF k >= 1 /\ k <= Len(x) /\ x[k] <= x[p]
    THEN IF x[k] < minimo
         THEN Base(x, p, k + passo, passo, x[k], k)
         ELSE Base(x, p, k + passo, passo, minimo, base)
    ELSE [minimo |-> minimo, base |-> base]

Prominencia(x, p) ==
    LET e == Base(x, p, p, -1, x[p], p)
        d == Base(x, p, p, 1, x[p], p)
    IN [pico |-> p, prominencia |-> x[p] - Max(e.minimo, d.minimo),
        esquerda |-> e.base, direita |-> d.base]

\* _peak_widths: walk from the peak towards a base while the signal is above
\* the evaluation height; h2 is twice that height
RECURSIVE Cruzamento(_, _, _, _, _)
Cruzamento(x, k, passo, limite, h2) ==
    IF k # limite /\ h2 < 2 * x[k]
    THEN Cruzamento(x, k + passo, passo, limite, h2)
    ELSE k

\* the width of a peak at half its prominence, as an exact rational
Largura(x, q) ==
    LET h2 == 2 * x[q.pico] - q.prominencia
        ke == Cruzamento(x, q.pico, -1, q.esquerda, h2)
        kd == Cruzamento(x, q.pico, 1, q.direita, h2)
        a  == IF 2 * x[ke] < h2 THEN h2 - 2 * x[ke] ELSE 0
        b  == IF 2 * x[ke] < h2 THEN 2 * (x[ke + 1] - x[ke]) ELSE 1
        c  == IF 2 * x[kd] < h2 THEN h2 - 2 * x[kd] ELSE 0
        d  == IF 2 * x[kd] < h2 THEN 2 * (x[kd - 1] - x[kd]) ELSE 1
    IN [tipo |-> "num", num |-> (kd - ke) * b * d - a * d - c * b, den |-> b * d]

\* k <= a for an integer k
MaiorOuIgual(a, k) == a.tipo = "num" /\ k * a.den <= a.num

RECURSIVE Manter(_, _, _)
Manter(x, ps, k) ==
    IF k > Len(ps) THEN <<>>
    ELSE LET q == Prominencia(x, ps[k])
         IN IF /\ q.prominencia >= limite_prominencia * janela_suavizacao
               /\ MaiorOuIgual(Largura(x, q), limite_largura)
            THEN <<ps[k] - 1>> \o Manter(x, ps, k + 1)
            ELSE Manter(x, ps, k + 1)

find_peaks(x) == Manter(x, MaximosLocais(x, 2), 1)

DetectarPicos ==
    /\ pc = "detectar"
    /\ picos' = find_peaks(SerieDeBusca(NDVI_Suavizado))
    /\ vales' = find_peaks(Negar(SerieDeBusca(NDVI_Suavizado)))
    /\ pc' = "iniciar_sequencia"
    /\ UNCHANGED <<arquivos, mensagens, dados, df, csv_completo, df_filtrado,
                   NDVI_Suavizado, csv_filtrado, tendencias_filtradas, sequencia, i, j,
                   grafico>>

---------------------------------------------------------------------------
(* Lines 99-124: the sequence Crescimento -> Pico -> Corte.  picos[i] of the
   script is picos[i + 1] here. *)

\* the sequence begun in the state pico
IniciarSequenciaEmPico ==
    /\ pc = "iniciar_sequencia"
    /\ tendencias_filtradas' = <<>>
    /\ sequencia' = "pico"
    /\ i' = 0
    /\ j' = 0
    /\ pc' = "laco"
    /\ UNCHANGED <<arquivos, mensagens, dados, df, csv_completo, df_filtrado,
                   NDVI_Suavizado, csv_filtrado, picos, vales, grafico>>

IniciarSequencia ==
    /\ pc = "iniciar_sequencia"
    /\ tendencias_filtradas' = <<>>
    /\ sequencia' = "crescimento"
    /\ i' = 0
    /\ j' = 0
    /\ pc' = "laco"
    /\ UNCHANGED <<arquivos, mensagens, dados, df, csv_completo, df_filtrado,
                   NDVI_Suavizado, csv_filtrado, picos, vales, grafico>>

NoLaco == pc = "laco" /\ i < Len(picos) /\ j < Len(vales)

Ultimo(s) == s[Len(s)]

\* the test of the state left out of line 106
CondicaoCorteSemEstado == picos[i + 1] < vales[j + 1]

\* the comparison with the next valley left out of line 106
CondicaoCorteSemComparacao == sequencia = "crescimento"

\* the comparison of line 106 turned around
CondicaoCorteInvertida == sequencia = "crescimento" /\ picos[i + 1] > vales[j + 1]

CondicaoCorte == sequencia = "crescimento" /\ picos[i + 1] < vales[j + 1]

CondicaoCrescimentoOuCorte ==
    sequencia = "pico" /\ vales[j + 1] > Ultimo(tendencias_filtradas)[2]

\* line 108 left out: the state stays crescimento
PassoCorteSemEstado ==
    /\ NoLaco
    /\ CondicaoCorte
    /\ tendencias_filtradas' = Append(tendencias_filtradas, <<"corte", picos[i + 1]>>)
    /\ i' = i + 1
    /\ UNCHANGED <<pc, arquivos, mensagens, dados, df, csv_completo, df_filtrado,
                   NDVI_Suavizado, csv_filtrado, picos, vales, sequencia, j, grafico>>

\* the event of line 107 given the position of the valley
PassoCorteNoVale ==
    /\ NoLaco
    /\ CondicaoCorte
    /\ tendencias_filtradas' = Append(tendencias_filtradas, <<"corte", vales[j + 1]>>)
    /\ sequencia' = "pico"
    /\ i' = i + 1
    /\ UNCHANGED <<pc, arquivos, mensagens, dados, df, csv_completo, df_filtrado,
                   NDVI_Suavizado, csv_filtrado, picos, vales, j, grafico>>

\* line 109 left out: the peak emitted stays the next peak
PassoCorteSemAvanco ==
    /\ NoLaco
    /\ CondicaoCorte
    /\ tendencias_filtradas' = Append(tendencias_filtradas, <<"corte", picos[i + 1]>>)
    /\ sequencia' = "pico"
    /\ UNCHANGED <<pc, arquivos, mensagens, dados, df, csv_completo, df_filtrado,
                   NDVI_Suavizado, csv_filtrado, picos, vales, i, j, grafico>>

\* lines 106-109
PassoCorte ==
    /\ NoLaco
    /\ CondicaoCorte
    /\ tendencias_filtradas' = Append(tendencias_filtradas, <<"corte", picos[i + 1]>>)
    /\ sequencia' = "pico"
    /\ i' = i + 1
    /\ UNCHANGED <<pc, arquivos, mensagens, dados, df, csv_completo, df_filtrado,
                   NDVI_Suavizado, csv_filtrado, picos, vales, j, grafico>>

\* line 112 left out: the state stays pico
PassoCrescimentoOuCorteSemEstado ==
    /\ NoLaco
    /\ ~CondicaoCorte
    /\ CondicaoCrescimentoOuCorte
    /\ tendencias_filtradas' =
           Append(tendencias_filtradas, <<"crescimento_ou_corte", vales[j + 1]>>)
    /\ j' = j + 1
    /\ UNCHANGED <<pc, arquivos, mensagens, dados, df, csv_completo, df_filtrado,
                   NDVI_Suavizado, csv_filtrado, picos, vales, sequencia, i, grafico>>

\* lines 110-113
PassoCrescimentoOuCorte ==
    /\ NoLaco
    /\ ~CondicaoCorte
    /\ CondicaoCrescimentoOuCorte
    /\ tendencias_filtradas' =
           Append(tendencias_filtradas, <<"crescimento_ou_corte", vales[j + 1]>>)
    /\ sequencia' = "crescimento"
    /\ j' = j + 1
    /\ UNCHANGED <<pc, arquivos, mensagens, dados, df, csv_completo, df_filtrado,
                   NDVI_Suavizado, csv_filtrado, picos, vales, i, grafico>>

\* the increments of lines 115-118 left out
PassoPularSemAvanco ==
    /\ NoLaco
    /\ ~CondicaoCorte
    /\ ~CondicaoCrescimentoOuCorte
    /\ UNCHANGED vars

\* the valley skipped whatever the state
PassoPularVale ==
    /\ NoLaco
    /\ ~CondicaoCorte
    /\ ~CondicaoCrescimentoOuCorte
    /\ j' = j + 1
    /\ UNCHANGED <<pc, arquivos, mensagens, dados, df, csv_completo, df_filtrado,
                   NDVI_Suavizado, csv_filtrado, picos, vales, tendencias_filtradas,
                   sequencia, i, grafico>>

\* lines 114-118
PassoPular ==
    /\ NoLaco
    /\ ~CondicaoCorte
    /\ ~CondicaoCrescimentoOuCorte
    /\ IF sequencia = "crescimento"
          THEN i' = i + 1 /\ j' = j
          ELSE j' = j + 1 /\ i' = i
    /\ UNCHANGED <<pc, arquivos, mensagens, dados, df, csv_completo, df_filtrado,
                   NDVI_Suavizado, csv_filtrado, picos, vales, tendencias_filtradas,
                   sequencia, grafico>>

\* lines 123-124 left out
RemanescentesSoPicos(t) ==
    IF i < Len(picos) /\ sequencia = "crescimento"
    THEN Append(t, <<"corte", picos[i + 1]>>) ELSE t

\* the tests of the state left out of lines 121 and 123
RemanescentesSemEstado(t) ==
    LET t1 == IF i < Len(picos) THEN Append(t, <<"corte", picos[i + 1]>>) ELSE t
    IN IF j < Len(vales)
       THEN Append(t1, <<"crescimento_ou_corte", vales[j + 1]>>) ELSE t1

\* lines 120-124 left out
RemanescentesAusentes(t) == t

\* lines 120-124, reached when the loop condition is false
Remanescentes(t) ==
    LET t1 == IF i < Len(picos) /\ sequencia = "crescimento"
              THEN Append(t, <<"corte", picos[i + 1]>>) ELSE t
    IN IF j < Len(vales) /\ sequencia = "pico"
       THEN Append(t1, <<"crescimento_ou_corte", vales[j + 1]>>) ELSE t1

EventosRemanescentes ==
    /\ pc = "laco"
    /\ ~(i < Len(picos) /\ j < Len(vales))
    /\ tendencias_filtradas' = Remanescentes(tendencias_filtradas)
    /\ pc' = "plotar"
    /\ UNCHANGED <<arquivos, mensagens, dados, df, csv_completo, df_filtrado,
                   NDVI_Suavizado, csv_filtrado, picos, vales, sequencia, i, j, grafico>>

(* Lines 126-156: one vertical line per event at the date of its row of
   df_filtrado, and the chart saved *)

SalvarGrafico ==
    /\ pc = "plotar"
    /\ grafico' = [k \in DOMAIN tendencias_filtradas |->
                      [rotulo |-> tendencias_filtradas[k][1],
                       Data |-> df_filtrado[tendencias_filtradas[k][2] + 1].Data]]
    /\ mensagens' = Append(mensagens, "sucesso_grafico")
    /\ pc' = "fim"
    /\ UNCHANGED <<arquivos, dados, df, csv_completo, df_filtrado, NDVI_Suavizado,
                   csv_filtrado, picos, vales, tendencias_filtradas, sequencia, i, j>>

---------------------------------------------------------------------------
(* The whole run *)

Next ==
    \/ ListarArquivos
    \/ LerArquivos
    \/ VerificarDados
    \/ CriarDataFrame
    \/ SalvarCompleto
    \/ FiltrarDesvios
    \/ VerificarFiltrado
    \/ Suavizar
    \/ SalvarFiltrado
    \/ DetectarPicos
    \/ IniciarSequencia
    \/ PassoCorte
    \/ PassoCrescimentoOuCorte
    \/ PassoPular
    \/ EventosRemanescentes
    \/ SalvarGrafico

Spec == Init /\ [][Next]_vars

---------------------------------------------------------------------------
(* The sequencer alone, lines 99-124, on every pair of strictly increasing,
   mutually disjoint position sequences within the bounds, and on the pair
   picos = [5, 15], vales = [10, 20] *)

Crescentes(n, m) ==
    {s \in SeqsUpTo(0..n, m) : \A a, b \in DOMAIN s : a < b => s[a] < s[b]}

ParesDeExtremos ==
    {pv \in Crescentes(MaxIndice, MaxExtremos) \X Crescentes(MaxIndice, MaxExtremos) :
        Range(pv[1]) \cap Range(pv[2]) = {}}
    \cup {<<(<<5, 15>>), (<<10, 20>>)>>}

InitSeq ==
    /\ pc = "iniciar_sequencia"
    /\ \E pv \in ParesDeExtremos : picos = pv[1] /\ vales = pv[2]
    /\ arquivos = <<>>
    /\ mensagens = <<>>
    /\ dados = <<>>
    /\ df = <<>>
    /\ csv_completo = <<>>
    /\ df_filtrado = <<>>
    /\ NDVI_Suavizado = <<>>
    /\ csv_filtrado = <<>>
    /\ tendencias_filtradas = <<>>
    /\ sequencia = "indefinida"
    /\ i = 0
    /\ j = 0
    /\ grafico = <<>>

NextSeq ==
    \/ IniciarSequencia
    \/ PassoCorte
    \/ PassoCrescimentoOuCorte
    \/ PassoPular
    \/ EventosRemanescentes

SpecSeq == InitSeq /\ [][NextSeq]_vars

(* The sequencer as it is scheduled: main() runs on one thread and no call of
   lines 99-124 blocks, so a step that can be taken is taken *)

SpecSeqJusta == InitSeq /\ [][NextSeq]_vars /\ WF_vars(NextSeq)

---------------------------------------------------------------------------
(* The stages after the filter, lines 82-156, entered at line 83 with a
   filtered table drawn from three families:
     - the constant tables shorter than the window;
     - the table 1.00, 2.00, ..., 13.00;
     - for every sequence s of at most MaxDefinidos window sums, each one of
       NiveisDeSoma, the table whose k-th complete window sums to s[k].
   Every sequence of integers is the Media_NDVI column of some df_filtrado:
   line 75 keeps a row by its distance to the row before it in df, and a row
   that line 75 drops can be put before each of them. *)

MaxDefinidos == 8

NiveisDeSoma == {600, 900, 1000}

Linha(k, v) == [idx |-> k, Data |-> k, Media_NDVI |-> v]

RECURSIVE ValorDaSoma(_, _)
ValorDaSoma(s, k) ==
    IF k = 1 THEN s[1]
    ELSE IF k <= janela_suavizacao THEN 0
    ELSE ValorDaSoma(s, k - janela_suavizacao)
             + s[k - janela_suavizacao + 1] - s[k - janela_suavizacao]

TabelaDeSomas(s) ==
    [k \in 1..(Len(s) + janela_suavizacao - 1) |-> Linha(k, ValorDaSoma(s, k))]

TabelasCurtas == {[k \in 1..n |-> Linha(k, 50)] : n \in 1..(janela_suavizacao - 1)}

TabelaUmATreze == [k \in 1..13 |-> Linha(k, 100 * k)]

TabelasFiltradas ==
    TabelasCurtas \cup {TabelaUmATreze}
    \cup {TabelaDeSomas(s) : s \in SeqsUpTo(NiveisDeSoma, MaxDefinidos) \ {<<>>}}

InitNucleo ==
    /\ pc = "suavizar"
    /\ df_filtrado \in TabelasFiltradas
    /\ arquivos = <<>>
    /\ mensagens = <<>>
    /\ dados = <<>>
    /\ df = <<>>
    /\ csv_completo = <<>>
    /\ NDVI_Suavizado = <<>>
    /\ csv_filtrado = <<>>
    /\ picos = <<>>
    /\ vales = <<>>
    /\ tendencias_filtradas = <<>>
    /\ sequencia = "indefinida"
    /\ i = 0
    /\ j = 0
    /\ grafico = <<>>

NextNucleo ==
    \/ Suavizar
    \/ SalvarFiltrado
    \/ DetectarPicos
    \/ IniciarSequencia
    \/ PassoCorte
    \/ PassoCrescimentoOuCorte
    \/ PassoPular
    \/ EventosRemanescentes
    \/ SalvarGrafico

SpecNucleo == InitNucleo /\ [][NextNucleo]_vars

---------------------------------------------------------------------------
(* Vocabulary of the properties *)

\* the positions of main() at which df_filtrado has not been computed yet
AntesDeFiltrar ==
    {"listar", "ler", "verificar_dados", "ordenar", "salvar_completo", "filtrar"}

\* the position in df of the row r (index labels are unique)
PosicaoEmDf(r) == CHOOSE k \in DOMAIN df : df[k].idx = r.idx

EstaRetida(k) == \E m \in DOMAIN df_filtrado : df_filtrado[m].idx = df[k].idx

\* |v - ant| / ant * 100 <= 100 over the reals, undefined (false) for ant = 0
DesvioDentroDoLimite(v, ant) ==
    /\ ant # 0
    /\ ant > 0 => Abs(v - ant) * 100 <= 100 * ant
    /\ ant < 0 => Abs(v - ant) * 100 >= 100 * ant

Rotulos(t) == [k \in DOMAIN t |-> t[k][1]]

Posicoes(t) == [k \in DOMAIN t |-> t[k][2]]

EstritamenteCrescente(s) == \A a, b \in DOMAIN s : a < b => s[a] < s[b]

OrdenadaSemDuplicatas(d) == \A a, b \in DOMAIN d : a < b => d[a].Data < d[b].Data

SemSaidasDoNucleo ==
    /\ df_filtrado = <<>>
    /\ NDVI_Suavizado = <<>>
    /\ csv_filtrado = <<>>
    /\ picos = <<>>
    /\ vales = <<>>
    /\ tendencias_filtradas = <<>>
    /\ sequencia = "indefinida"
    /\ grafico = <<>>

---------------------------------------------------------------------------
(* C1.  The list of events alternates corte, crescimento_ou_corte, corte, ...
   and, when it is not empty, begins with corte: the k-th event is a corte
   exactly when k is odd.  Checked in every state of the sequencer, so for
   every prefix of the list and for the list after the remaining events. *)
C1_Alternancia ==
    \A k \in DOMAIN tendencias_filtradas :
        tendencias_filtradas[k][1] =
            (IF k % 2 = 1 THEN "corte" ELSE "crescimento_ou_corte")

\* a finished run whose third event was appended after the loop
C1_Testemunha ==
    /\ pc = "plotar"
    /\ Len(tendencias_filtradas) = 3
    /\ i < Len(picos)
    /\ Rotulos(tendencias_filtradas) = <<"corte", "crescimento_ou_corte", "corte">>

(* C2.  The positions of the events are strictly increasing along the list. *)
C2_OrdemTemporal == EstritamenteCrescente(Posicoes(tendencias_filtradas))

(* C3.  With picos = [5, 15] and vales = [10, 20] the finished list is
   (corte, 5), (crescimento_ou_corte, 10), (corte, 15),
   (crescimento_ou_corte, 20); the loop produces the first three and the
   last one is appended after the loop. *)
C3_Cenario ==
    (picos = <<5, 15>> /\ vales = <<10, 20>>) =>
        /\ pc = "plotar" =>
               tendencias_filtradas =
                   << <<"corte", 5>>, <<"crescimento_ou_corte", 10>>, <<"corte", 15>>,
                      <<"crescimento_ou_corte", 20>> >>
        /\ pc = "laco" =>
               /\ Len(tendencias_filtradas) <= 3
               /\ \A k \in DOMAIN tendencias_filtradas :
                      tendencias_filtradas[k] =
                          << <<"corte", 5>>, <<"crescimento_ou_corte", 10>>,
                             <<"corte", 15>> >>[k]

C3_Testemunha ==
    /\ picos = <<5, 15>>
    /\ vales = <<10, 20>>
    /\ pc = "plotar"
    /\ Len(tendencias_filtradas) = 4

(* C4.  Every row of df_filtrado that is not the first row of df satisfies
   |value - previous| / previous * 100 <= 100, where previous is the value of
   the row just before it in df, the sorted unfiltered table. *)
C4_DesvioContraOriginal ==
    \A m \in DOMAIN df_filtrado :
        LET k == PosicaoEmDf(df_filtrado[m])
        IN k > 1 => DesvioDentroDoLimite(df[k].Media_NDVI, df[k - 1].Media_NDVI)

\* a retained row whose predecessor in df was dropped, and which would fail
\* the test against the retained row before it
C4_Testemunha ==
    \E m \in DOMAIN df_filtrado :
        /\ m > 1
        /\ PosicaoEmDf(df_filtrado[m]) > 1
        /\ ~EstaRetida(PosicaoEmDf(df_filtrado[m]) - 1)
        /\ ~DesvioDentroDoLimite(df_filtrado[m].Media_NDVI, df_filtrado[m - 1].Media_NDVI)

(* C5.  Once the filter has run, the first row of df is retained, and a later
   row is retained if and only if its deviation against the row before it in
   df is at most 100 percent. *)
C5_PrimeiraSempreRetida ==
    pc \notin AntesDeFiltrar =>
        \A k \in DOMAIN df :
            EstaRetida(k) <=>
                (k = 1 \/ DesvioDentroDoLimite(df[k].Media_NDVI, df[k - 1].Media_NDVI))

(* C6.  When every row of df after the first fails the deviation test,
   df_filtrado has exactly one row, the first of df, and no error is
   reported; the series [10, 25] gives [10]. *)
C6_SerieDeUmElemento ==
    (/\ pc \notin AntesDeFiltrar \cup {"verificar_filtrado"}
     /\ Len(df) >= 2
     /\ \A k \in DOMAIN df :
            k > 1 => ~DesvioDentroDoLimite(df[k].Media_NDVI, df[k - 1].Media_NDVI))
    => /\ Len(df_filtrado) = 1
       /\ df_filtrado[1] = df[1]
       /\ "erro_filtragem_vazia" \notin Range(mensagens)
       /\ ([k \in DOMAIN df |-> df[k].Media_NDVI] = <<1000, 2500>>
              => [k \in DOMAIN df_filtrado |-> df_filtrado[k].Media_NDVI] = <<1000>>)

(* C7.  df_filtrado is a subsequence of df: each of its rows is a row of df,
   with the date and the value read for that observation, and its rows come
   in the order they have in df, none twice. *)
C7_Subsequencia ==
    /\ \A m \in DOMAIN df_filtrado :
           /\ \E k \in DOMAIN df : df[k] = df_filtrado[m]
           /\ df_filtrado[m].Data = dados[df_filtrado[m].idx + 1].Data
           /\ df_filtrado[m].Media_NDVI = dados[df_filtrado[m].idx + 1].Media_NDVI
    /\ \A m, n \in DOMAIN df_filtrado :
           m < n => PosicaoEmDf(df_filtrado[m]) < PosicaoEmDf(df_filtrado[n])

\* two retained rows with a dropped row between them
C7_Testemunha ==
    \E m \in DOMAIN df_filtrado :
        /\ m > 1
        /\ PosicaoEmDf(df_filtrado[m]) > PosicaoEmDf(df_filtrado[m - 1]) + 1

(* C8.  With no observation read (no file, or no file with a valid name),
   the run ends, its last dialog is the error of lines 37 or 61, no table is
   written and no stage of the core has run. *)
C8_SerieVaziaEncerra ==
    ((\A k \in DOMAIN arquivos : ~arquivos[k].valido)
        /\ pc \notin {"listar", "ler", "verificar_dados"})
    => /\ pc = "fim"
       /\ mensagens # <<>>
       /\ Ultimo(mensagens) \in {"erro_nenhum_tiff", "erro_nenhum_dado"}
       /\ \A k \in DOMAIN mensagens :
              mensagens[k] \in {"erro_nenhum_tiff", "erro_nenhum_dado", "aviso_nome_invalido"}
       /\ df = <<>>
       /\ csv_completo = <<>>
       /\ SemSaidasDoNucleo

\* a directory with files, none of them with a valid name
C8_Testemunha ==
    /\ pc = "fim"
    /\ arquivos # <<>>
    /\ dados = <<>>
    /\ Ultimo(mensagens) = "erro_nenhum_dado"

(* C9, as claimed.  A series that is not in strictly ascending order of date
   (out of order, or a date twice) is rejected: no DataFrame is built from
   it and nothing is written. *)
C9_EntradaDesordenadaRejeitada ==
    ~OrdenadaSemDuplicatas(dados) =>
        /\ pc \in {"verificar_dados", "ordenar", "fim"}
        /\ df = <<>>
        /\ csv_completo = <<>>

(* C9, amended.  Whatever the order of the series, once line 65 has run df
   holds exactly the rows of dados, in ascending order of date (rows of equal
   date kept), the run goes on to write the complete table, and the only
   error it can still report is the empty filtered table. *)
C9_OrdenaEContinua ==
    (dados # <<>> /\ pc \notin {"listar", "ler", "verificar_dados", "ordenar"}) =>
        /\ Len(df) = Len(dados)
        /\ \A k \in DOMAIN dados :
               \E n \in DOMAIN df :
                   df[n] = [idx |-> k - 1, Data |-> dados[k].Data,
                            Media_NDVI |-> dados[k].Media_NDVI]
        /\ \A a, b \in DOMAIN df : a < b => df[a].Data <= df[b].Data
        /\ pc # "salvar_completo" =>
               /\ "sucesso_tabela_completa" \in Range(mensagens)
               /\ csv_completo =
                      [k \in DOMAIN df |->
                          [Data |-> df[k].Data, Media_NDVI |-> df[k].Media_NDVI]]
        /\ \A k \in DOMAIN mensagens :
               mensagens[k] \notin {"erro_nenhum_tiff", "erro_nenhum_dado"}

\* a series out of order and with a date twice, sorted and written
C9_Testemunha ==
    /\ pc = "filtrar"
    /\ \E a, b \in DOMAIN dados : a < b /\ dados[a].Data > dados[b].Data
    /\ \E a, b \in DOMAIN dados : a < b /\ dados[a].Data = dados[b].Data
    /\ csv_completo # <<>>

(* C10.  When the filter leaves no row, the run ends with the error of line
   79 as its last dialog: no smoothed column, no filtered table, no extremum,
   no event and no chart exists, then or later. *)
C10_FiltradoVazioAborta ==
    (dados # <<>> /\ df_filtrado = <<>> /\ pc \notin AntesDeFiltrar \cup {"verificar_filtrado"})
    => /\ pc = "fim"
       /\ Ultimo(mensagens) = "erro_filtragem_vazia"
       /\ "sucesso_tabela_filtrada" \notin Range(mensagens)
       /\ "sucesso_grafico" \notin Range(mensagens)
       /\ SemSaidasDoNucleo

\* several observations, all dropped by the filter
C10_Testemunha ==
    /\ pc = "fim"
    /\ Len(df) >= 2
    /\ df_filtrado = <<>>
    /\ Ultimo(mensagens) = "erro_filtragem_vazia"

\* the positions of main() at which NDVI_Suavizado has been computed
AposSuavizar ==
    {"salvar_filtrado", "detectar", "iniciar_sequencia", "laco", "plotar", "fim"}

(* C11.  Once line 84 has run, NDVI_Suavizado has as many entries as
   df_filtrado has rows; its first 4 and its last 4 entries (all of them when
   there are fewer than 9) are NaN and every other entry is a number. *)
C11_FormaDaSuavizacao ==
    (pc \in AposSuavizar /\ df_filtrado # <<>>) =>
        /\ Len(NDVI_Suavizado) = Len(df_filtrado)
        /\ \A k \in DOMAIN NDVI_Suavizado :
               (NDVI_Suavizado[k].tipo = "nan") <=>
                   (k <= 4 \/ k > Len(df_filtrado) - 4)
        /\ \A k \in DOMAIN NDVI_Suavizado : NDVI_Suavizado[k].tipo \in {"nan", "num"}

\* a table of 12 rows smoothed: 4 NaN, 4 numbers, 4 NaN
C11_Testemunha ==
    /\ pc = "salvar_filtrado"
    /\ Len(df_filtrado) = 12
    /\ Len(NDVI_Suavizado) = 12
    /\ NDVI_Suavizado[4].tipo = "nan"
    /\ NDVI_Suavizado[5].tipo = "num"
    /\ NDVI_Suavizado[8].tipo = "num"
    /\ NDVI_Suavizado[9].tipo = "nan"

(* C12.  Every entry of NDVI_Suavizado that is a number is the arithmetic
   mean of the 9 values of df_filtrado at the positions k-4 .. k+4; when
   df_filtrado holds 1.00, 2.00, ..., 13.00 the entry at position 6 (from 0)
   is 7.00. *)
C12_ValorDaSuavizacao ==
    (pc \in AposSuavizar /\ df_filtrado # <<>>) =>
        /\ \A k \in DOMAIN NDVI_Suavizado :
               NDVI_Suavizado[k].tipo = "num" =>
                   9 * NDVI_Suavizado[k].num =
                       NDVI_Suavizado[k].den *
                           ( df_filtrado[k - 4].Media_NDVI + df_filtrado[k - 3].Media_NDVI
                           + df_filtrado[k - 2].Media_NDVI + df_filtrado[k - 1].Media_NDVI
                           + df_filtrado[k].Media_NDVI + df_filtrado[k + 1].Media_NDVI
                           + df_filtrado[k + 2].Media_NDVI + df_filtrado[k + 3].Media_NDVI
                           + df_filtrado[k + 4].Media_NDVI )
        /\ [k \in DOMAIN df_filtrado |-> df_filtrado[k].Media_NDVI]
               = [k \in 1..13 |-> 100 * k]
           => /\ NDVI_Suavizado[7].tipo = "num"
              /\ NDVI_Suavizado[7].num = 700 * NDVI_Suavizado[7].den

\* the table 1.00 .. 13.00 smoothed
C12_Testemunha ==
    /\ pc = "salvar_filtrado"
    /\ Len(df_filtrado) = 13
    /\ \A k \in 1..13 : df_filtrado[k].Media_NDVI = 100 * k
    /\ NDVI_Suavizado[7] = [tipo |-> "num", num |-> 6300, den |-> 9]

\* the positions of main() at which picos and vales have been computed
AposDetectar == {"iniciar_sequencia", "laco", "plotar", "fim"}

(* C13.  picos and vales are each a strictly increasing sequence of positions
   of df_filtrado (from 0), and no position is in both. *)
C13_Extremos ==
    pc \in AposDetectar =>
        /\ EstritamenteCrescente(picos)
        /\ EstritamenteCrescente(vales)
        /\ \A k \in DOMAIN picos : picos[k] \in 0..(Len(df_filtrado) - 1)
        /\ \A k \in DOMAIN vales : vales[k] \in 0..(Len(df_filtrado) - 1)
        /\ Range(picos) \cap Range(vales) = {}

\* two peaks and a valley between them found
C13_Testemunha ==
    /\ pc = "iniciar_sequencia"
    /\ Len(picos) >= 2
    /\ Len(vales) >= 1
    /\ picos[1] < vales[1]
    /\ vales[1] < picos[2]

(* C15.  The loop of lines 105-118 ends: every run of the sequencer reaches
   line 120.  The loop is left exactly when i = len(picos) or j = len(vales).
   Every iteration adds one to exactly one of i, j and leaves the other, so
   i + j counts the iterations and never exceeds len(picos) + len(vales). *)
C15_TerminacaoDoLaco ==
    /\ [][NoLaco => \/ i' = i + 1 /\ j' = j
                    \/ i' = i /\ j' = j + 1]_vars
    /\ [][pc = "laco" => (pc' = "plotar" <=> (i = Len(picos) \/ j = Len(vales)))]_vars
    /\ [](pc \in {"laco", "plotar"} =>
             /\ i <= Len(picos)
             /\ j <= Len(vales)
             /\ i + j <= Len(picos) + Len(vales))
    /\ <>(pc = "plotar")

\* the loop left after four iterations, the peaks used up and a valley left
C15_Testemunha ==
    /\ pc = "plotar"
    /\ i + j = 4
    /\ i = Len(picos)
    /\ j < Len(vales)

\* the outputs written so far, by the dialog that follows each of them
Escrito(m) == \E k \in DOMAIN mensagens : mensagens[k] = m

\* the positions of main() after line 124
AposSequencia == {"plotar", "fim"}

(* C16 as stated.  No output is written until the filter, the smoothing, the
   search of the extremes and the sequence have all been done: a table or the
   chart is on disk only at the positions after line 124. *)
C16_SaidasSoNoFim ==
    (Escrito("sucesso_tabela_completa") \/ Escrito("sucesso_tabela_filtrada")
         \/ Escrito("sucesso_grafico"))
        => pc \in AposSequencia

(* C16 amended.  The complete table is written before the filter runs, the
   filtered table is written after the smoothing and before the search of
   the extremes, and the chart is written after the sequence: at each position
   of main() exactly the outputs of the earlier lines are on disk. *)
C16_SaidasEntreEstagios ==
    /\ pc \in {"filtrar", "verificar_filtrado", "suavizar", "salvar_filtrado"} =>
           /\ Escrito("sucesso_tabela_completa")
           /\ csv_completo = [k \in DOMAIN df |->
                                 [Data |-> df[k].Data, Media_NDVI |-> df[k].Media_NDVI]]
           /\ ~Escrito("sucesso_tabela_filtrada")
           /\ csv_filtrado = <<>>
           /\ ~Escrito("sucesso_grafico")
    /\ pc = "filtrar" => df_filtrado = <<>>
    /\ pc \in {"detectar", "iniciar_sequencia", "laco", "plotar"} =>
           /\ Escrito("sucesso_tabela_completa")
           /\ Escrito("sucesso_tabela_filtrada")
           /\ Len(csv_filtrado) = Len(df_filtrado)
           /\ \A k \in DOMAIN csv_filtrado :
                  csv_filtrado[k].NDVI_Suavizado = NDVI_Suavizado[k]
           /\ ~Escrito("sucesso_grafico")
    /\ pc = "detectar" => picos = <<>> /\ vales = <<>> /\ sequencia = "indefinida"
    /\ Escrito("sucesso_grafico") =>
           pc = "fim" /\ Escrito("sucesso_tabela_filtrada")
    /\ Escrito("sucesso_tabela_filtrada") => Escrito("sucesso_tabela_completa")

\* the filtered table of a series with extremes on disk, the extremes not yet searched
C16_Testemunha ==
    /\ pc = "detectar"
    /\ Escrito("sucesso_tabela_filtrada")
    /\ Len(csv_filtrado) >= janela_suavizacao
    /\ picos = <<>>
    /\ find_peaks(SerieDeBusca(NDVI_Suavizado)) # <<>>

(* C17.  In the loop, in the state crescimento with picos[i] < vales[j], one
   step appends exactly the event (corte, picos[i]), adds one to i, leaves j
   and moves to the state pico. *)
C17_CrescimentoCorte ==
    [][(NoLaco /\ sequencia = "crescimento" /\ picos[i + 1] < vales[j + 1]) =>
          /\ tendencias_filtradas' =
                 Append(tendencias_filtradas, <<"corte", picos[i + 1]>>)
          /\ i' = i + 1
          /\ j' = j
          /\ sequencia' = "pico"]_vars

\* in the loop just after the second corte, emitted from the state crescimento
C17_Testemunha ==
    /\ pc = "laco"
    /\ sequencia = "pico"
    /\ i = 2
    /\ j = 1
    /\ Len(tendencias_filtradas) = 3
    /\ Ultimo(tendencias_filtradas) = <<"corte", picos[i]>>
    /\ picos[i] < vales[j + 1]

(* C18.  In the loop, in the state crescimento with picos[i] >= vales[j], one
   step adds one to i and leaves j, the list of events and the state. *)
C18_CrescimentoPular ==
    [][(NoLaco /\ sequencia = "crescimento" /\ picos[i + 1] >= vales[j + 1]) =>
          /\ i' = i + 1
          /\ j' = j
          /\ tendencias_filtradas' = tendencias_filtradas
          /\ sequencia' = sequencia]_vars

\* in the loop with a peak skipped: i advanced and no event emitted
C18_Testemunha ==
    /\ pc = "laco"
    /\ sequencia = "crescimento"
    /\ i = 1
    /\ j = 0
    /\ tendencias_filtradas = <<>>
    /\ picos[1] >= vales[1]
    /\ NoLaco

\* the step appends (crescimento_ou_corte, vales[j]), adds one to j, leaves i
\* and moves to the state crescimento
EfeitoCrescimentoOuCorte ==
    /\ tendencias_filtradas' =
           Append(tendencias_filtradas, <<"crescimento_ou_corte", vales[j + 1]>>)
    /\ j' = j + 1
    /\ i' = i
    /\ sequencia' = "crescimento"

(* C19 as stated.  In the state pico with j < len(vales) and vales[j] after
   the position of the last event, whatever i is, one step of the sequencer
   appends (crescimento_ou_corte, vales[j]), adds one to j, leaves i and moves
   to the state crescimento. *)
C19_PicoValeSemLimiteDePicos ==
    [][(/\ pc = "laco"
        /\ sequencia = "pico"
        /\ j < Len(vales)
        /\ vales[j + 1] > Ultimo(tendencias_filtradas)[2]) =>
          EfeitoCrescimentoOuCorte]_vars

(* C19 amended.  The same inside the loop, that is with i < len(picos) too. *)
C19_PicoValeNoLaco ==
    [][(/\ NoLaco
        /\ sequencia = "pico"
        /\ vales[j + 1] > Ultimo(tendencias_filtradas)[2]) =>
          EfeitoCrescimentoOuCorte]_vars

\* in the loop just after a crescimento_ou_corte emitted from the state pico
C19_Testemunha ==
    /\ pc = "laco"
    /\ sequencia = "crescimento"
    /\ i = 1
    /\ j = 1
    /\ i < Len(picos)
    /\ tendencias_filtradas = <<(<<"corte", picos[1]>>),
                                (<<"crescimento_ou_corte", vales[1]>>)>>
    /\ vales[1] > picos[1]

(* C20.  The step that leaves the loop appends (corte, picos[i]) when
   i < len(picos) and the state is crescimento, appends
   (crescimento_ou_corte, vales[j]) when j < len(vales) and the state is
   pico, and appends nothing in every other case; it never appends more than
   one event, and it removes or changes none. *)
C20_EventosRemanescentes ==
    [][(pc = "laco" /\ pc' = "plotar") =>
          /\ (i < Len(picos) /\ sequencia = "crescimento") =>
                 tendencias_filtradas' =
                     Append(tendencias_filtradas, <<"corte", picos[i + 1]>>)
          /\ (j < Len(vales) /\ sequencia = "pico") =>
                 tendencias_filtradas' =
                     Append(tendencias_filtradas, <<"crescimento_ou_corte", vales[j + 1]>>)
          /\ (~(i < Len(picos) /\ sequencia = "crescimento")
                 /\ ~(j < Len(vales) /\ sequencia = "pico")) =>
                 tendencias_filtradas' = tendencias_filtradas
          /\ Len(tendencias_filtradas') <= Len(tendencias_filtradas) + 1]_vars

\* the loop left in the state pico with a valley remaining, and that valley appended
C20_Testemunha ==
    /\ pc = "plotar"
    /\ sequencia = "pico"
    /\ i = Len(picos)
    /\ j < Len(vales)
    /\ Len(tendencias_filtradas) = 2 * i
    /\ Ultimo(tendencias_filtradas) = <<"crescimento_ou_corte", vales[j + 1]>>

\* the value read for the row of df that is the m-th row of df_filtrado
ValorRetido(m) == df[PosicaoEmDf(df_filtrado[m])].Media_NDVI

(* C21.  Every entry of NDVI_Suavizado that is a number is the mean of the
   values of 9 rows that the filter retained, those at the positions k-4 ..
   k+4 of df_filtrado; the rows of df that the filter dropped, also those
   lying between two of the 9, are not part of it. *)
C21_SuavizaSoRetidas ==
    (pc \in AposSuavizar /\ df_filtrado # <<>>) =>
        \A k \in DOMAIN NDVI_Suavizado :
            NDVI_Suavizado[k].tipo = "num" =>
                /\ k - 4 >= 1
                /\ k + 4 <= Len(df_filtrado)
                /\ \A m \in (k - 4)..(k + 4) :
                       Retido(df, PosicaoEmDf(df_filtrado[m]))
                /\ 9 * NDVI_Suavizado[k].num =
                       NDVI_Suavizado[k].den *
                           ( ValorRetido(k - 4) + ValorRetido(k - 3) + ValorRetido(k - 2)
                           + ValorRetido(k - 1) + ValorRetido(k) + ValorRetido(k + 1)
                           + ValorRetido(k + 2) + ValorRetido(k + 3) + ValorRetido(k + 4) )

\* a smoothed value whose 9 retained rows have a dropped row of df between them
C21_Testemunha ==
    /\ pc = "salvar_filtrado"
    /\ \E k \in DOMAIN NDVI_Suavizado :
           /\ NDVI_Suavizado[k].tipo = "num"
           /\ PosicaoEmDf(df_filtrado[k + 4]) - PosicaoEmDf(df_filtrado[k - 4]) > 8

\* NDVI_Suavizado times 9 with 0 at its undefined entries
ZeroNosIndefinidos ==
    [k \in DOMAIN NDVI_Suavizado |->
        IF NDVI_Suavizado[k].tipo = "nan" THEN 0
        ELSE (9 * NDVI_Suavizado[k].num) \div NDVI_Suavizado[k].den]

(* C22.  Once lines 96-97 have run, picos are the peaks of NDVI_Suavizado
   with 0 at every undefined entry, vales the peaks of the negation of that same zero-filled series;
   the column NDVI_Suavizado itself, and its copy in the filtered table
   written at line 88, keep the undefined entries undefined. *)
C22_ZeroSoNaBusca ==
    (pc = "iniciar_sequencia" /\ df_filtrado # <<>>) =>
        /\ picos = find_peaks(ZeroNosIndefinidos)
        /\ vales = find_peaks([k \in DOMAIN NDVI_Suavizado |-> -ZeroNosIndefinidos[k]])
        /\ \A k \in DOMAIN NDVI_Suavizado :
               (k <= 4 \/ k > Len(NDVI_Suavizado) - 4) =>
                   /\ NDVI_Suavizado[k].tipo = "nan"
                   /\ csv_filtrado[k].NDVI_Suavizado.tipo = "nan"

\* a constant smoothed column: its only peak is the plateau above the zeros
\* put at the undefined ends
C22_Testemunha ==
    /\ pc = "iniciar_sequencia"
    /\ Len(NDVI_Suavizado) = 13
    /\ \A k \in 5..9 : NDVI_Suavizado[k] = [tipo |-> "num", num |-> 600, den |-> 9]
    /\ picos = <<6>>
    /\ vales = <<>>
    /\ csv_filtrado[1].NDVI_Suavizado.tipo = "nan"

\* the events of the list t that carry the label r
ComRotulo(t, r) == LET Tem(e) == e[1] = r IN SelectSeq(t, Tem)

(* C23.  In every state of the loop in which the state is pico, vales[j] lies
   after the position of the last event, so the else branch of lines 117-118
   (j advanced, nothing emitted) is never taken; the crescimento_ou_corte
   events, in their order, are the first valleys of vales, none left out. *)
C23_ValesNuncaPulados ==
    /\ (NoLaco /\ sequencia = "pico") =>
           /\ tendencias_filtradas # <<>>
           /\ vales[j + 1] > Ultimo(tendencias_filtradas)[2]
    /\ pc \in {"laco", "plotar"} =>
           LET g == ComRotulo(tendencias_filtradas, "crescimento_ou_corte")
           IN /\ Len(g) <= Len(vales)
              /\ \A k \in DOMAIN g : g[k][2] = vales[k]
              /\ pc = "laco" => Len(g) = j

\* in the loop in the state pico for the second time, one valley emitted
C23_Testemunha ==
    /\ NoLaco
    /\ sequencia = "pico"
    /\ i = 2
    /\ j = 1
    /\ Posicoes(ComRotulo(tendencias_filtradas, "crescimento_ou_corte")) = <<vales[1]>>
    /\ vales[j + 1] > Ultimo(tendencias_filtradas)[2]

(* C24.  In every state of the loop the state is crescimento exactly when the
   number of events is even, which is when the list is empty or ends with a
   crescimento_ou_corte; and there are as many corte events as
   crescimento_ou_corte events, or one more. *)
C24_EstadoEParidade ==
    pc = "laco" =>
        /\ sequencia \in {"crescimento", "pico"}
        /\ sequencia = "crescimento" <=> Len(tendencias_filtradas) % 2 = 0
        /\ sequencia = "crescimento" <=>
               \/ tendencias_filtradas = <<>>
               \/ Ultimo(tendencias_filtradas)[1] = "crescimento_ou_corte"
        /\ Len(ComRotulo(tendencias_filtradas, "corte"))
               - Len(ComRotulo(tendencias_filtradas, "crescimento_ou_corte")) \in {0, 1}

\* in the loop with three events, the state pico
C24_Testemunha ==
    /\ NoLaco
    /\ Len(tendencias_filtradas) = 3
    /\ sequencia = "pico"
    /\ Len(ComRotulo(tendencias_filtradas, "corte")) = 2

\* the smaller of two numbers
Menor(a, b) == IF a <= b THEN a ELSE b

(* C25.  Every corte event carries a position of picos and every
   crescimento_ou_corte event a position of vales; no position of picos or of
   vales is emitted twice; and the list never has more than
   2 * min(len(picos), len(vales)) + 1 events. *)
C25_ProvenienciaDosEventos ==
    pc \in {"laco", "plotar"} =>
        /\ \A k \in DOMAIN tendencias_filtradas :
               /\ tendencias_filtradas[k][1] \in {"corte", "crescimento_ou_corte"}
               /\ tendencias_filtradas[k][1] = "corte" =>
                      tendencias_filtradas[k][2] \in Range(picos)
               /\ tendencias_filtradas[k][1] = "crescimento_ou_corte" =>
                      tendencias_filtradas[k][2] \in Range(vales)
        /\ \A a, b \in DOMAIN tendencias_filtradas :
               a < b => tendencias_filtradas[a] # tendencias_filtradas[b]
        /\ Len(tendencias_filtradas) <= 2 * Menor(Len(picos), Len(vales)) + 1

\* a finished list that reaches the bound: two peaks, one valley, three events
C25_Testemunha ==
    /\ pc = "plotar"
    /\ Len(picos) = 2
    /\ Len(vales) = 1
    /\ tendencias_filtradas = <<(<<"corte", picos[1]>>),
                                (<<"crescimento_ou_corte", vales[1]>>),
                                (<<"corte", picos[2]>>)>>

(* C26.  Every crescimento_ou_corte event, appended in the loop or after it,
   comes right after a corte event and at a position after that corte's. *)
C26_ValeDepoisDoCorte ==
    \A k \in DOMAIN tendencias_filtradas :
        tendencias_filtradas[k][1] = "crescimento_ou_corte" =>
            /\ k > 1
            /\ tendencias_filtradas[k - 1][1] = "corte"
            /\ tendencias_filtradas[k][2] > tendencias_filtradas[k - 1][2]

\* a crescimento_ou_corte appended after the loop, the peaks used up
C26_Testemunha ==
    /\ pc = "plotar"
    /\ i = Len(picos)
    /\ j = 0
    /\ sequencia = "pico"
    /\ Len(tendencias_filtradas) = 2
    /\ tendencias_filtradas[2] = <<"crescimento_ou_corte", vales[1]>>
    /\ tendencias_filtradas[1][2] < vales[1]

(* C27.  When picos and vales are both non-empty and strictly increasing and
   the first valley lies before the first peak, every peak is skipped: j
   stays 0, the state stays crescimento, and no event is appended, in the
   loop or after it. *)
C27_ValeInicial ==
    (/\ pc \in {"laco", "plotar"}
     /\ picos # <<>>
     /\ vales # <<>>
     /\ EstritamenteCrescente(picos)
     /\ EstritamenteCrescente(vales)
     /\ vales[1] < picos[1]) =>
        /\ tendencias_filtradas = <<>>
        /\ j = 0
        /\ sequencia = "crescimento"
        /\ pc = "plotar" => i = Len(picos)

\* three peaks after the first of two valleys, all skipped, the run of the sequence over
C27_Testemunha ==
    /\ pc = "plotar"
    /\ Len(picos) = 3
    /\ Len(vales) = 2
    /\ vales[1] < picos[1]
    /\ picos[1] < vales[2]
    /\ i = 3
    /\ tendencias_filtradas = <<>>

(* C28.  With no valley and at least one peak the finished list is exactly
   (corte, picos[0]); with no peak the finished list is empty, whatever the
   valleys. *)
C28_EntradasDegeneradas ==
    pc = "plotar" =>
        /\ (vales = <<>> /\ picos # <<>>) =>
               tendencias_filtradas = <<(<<"corte", picos[1]>>)>>
        /\ picos = <<>> => tendencias_filtradas = <<>>

\* three peaks and no valley: the first peak alone in the finished list
C28_Testemunha ==
    /\ pc = "plotar"
    /\ vales = <<>>
    /\ Len(picos) = 3
    /\ i = 0
    /\ tendencias_filtradas = <<(<<"corte", picos[1]>>)>>

(* C29.  When df_filtrado has from 1 to 8 rows every entry of NDVI_Suavizado
   is undefined, the zero-filled series is 0 everywhere, picos and vales are
   empty, the list of events stays empty, and main() goes on to the end: the
   filtered table and the chart are written and no error dialog is shown. *)
C29_SerieCurta ==
    (df_filtrado # <<>> /\ Len(df_filtrado) < 9) =>
        /\ pc \in AposSuavizar =>
               /\ \A k \in DOMAIN NDVI_Suavizado : NDVI_Suavizado[k].tipo = "nan"
               /\ \A k \in DOMAIN NDVI_Suavizado : SerieDeBusca(NDVI_Suavizado)[k] = 0
        /\ picos = <<>>
        /\ vales = <<>>
        /\ tendencias_filtradas = <<>>
        /\ pc # "fim" => ENABLED NextNucleo
        /\ pc = "fim" =>
               /\ Escrito("sucesso_tabela_filtrada")
               /\ Escrito("sucesso_grafico")
               /\ grafico = <<>>
               /\ ~Escrito("erro_nenhum_tiff")
               /\ ~Escrito("erro_nenhum_dado")
               /\ ~Escrito("erro_filtragem_vazia")

\* a table of 8 rows gone through to the end
C29_Testemunha ==
    /\ pc = "fim"
    /\ Len(df_filtrado) = 8
    /\ Len(NDVI_Suavizado) = 8
    /\ Escrito("sucesso_grafico")
    /\ tendencias_filtradas = <<>>

(* C30.  Percent_Desvio divides by the previous value of df with its sign: a
   row whose previous row in df has a negative value has a deviation that is
   a number not above 0 and is retained, however far its value is; a row
   whose previous row in df has the value 0 is never retained. *)
C30_SinalDoAnterior ==
    pc \notin AntesDeFiltrar =>
        \A k \in DOMAIN df :
            k >= 2 =>
                /\ df[k - 1].Media_NDVI < 0 =>
                       /\ Percent_Desvio(df, k).tipo = "num"
                       /\ Percent_Desvio(df, k).num <= 0
                       /\ Percent_Desvio(df, k).den > 0
                       /\ EstaRetida(k)
                /\ df[k - 1].Media_NDVI = 0 =>
                       /\ Percent_Desvio(df, k).tipo \in {"nan", "inf"}
                       /\ ~EstaRetida(k)

\* a row retained after -10.00 and a jump of 25.00 dropped after the 0.00 it left
C30_Testemunha ==
    /\ pc = "verificar_filtrado"
    /\ Len(df) = 3
    /\ df[1].Media_NDVI = -1000
    /\ df[2].Media_NDVI = 0
    /\ df[3].Media_NDVI = 2500
    /\ EstaRetida(2)
    /\ ~EstaRetida(3)
    /\ Len(df_filtrado) = 1

====
